---- MODULE Spec2Model ----
(***************************************************************************)
(* Charge-cycle detection of the webike toolchain (data/ChargeCycle.py):   *)
(* the predicate can_merge, the two-cursor merge_cycles, the threshold     *)
(* extractor extract_cycles_curr and the derivative extractor              *)
(* extract_cycles_soc, the smoother smooth, and preprocess_cycles, which    *)
(* runs both extractors on one stream, merges their accepted lists and     *)
(* writes the result.  Each function is a state machine; one step of a     *)
(* machine is one iteration of the function's loop.                        *)
(*                                                                         *)
(* Time stamps and durations are integers (seconds).  A sample is a record *)
(* [Stamp, ChargingCurr, soc_smooth]; a cycle is a record                  *)
(* [start, end, sample_count, metric(, type)] whose start and end are      *)
(* samples, except in the combined cycle built by merge_cycles, whose      *)
(* start and end are bare time stamps, as in the code.  Python's None is   *)
(* the empty sequence and a value that may be None is a sequence of length *)
(* at most one.                                                            *)
(***************************************************************************)
EXTENDS Integers, Sequences, FiniteSets, TLC

VARIABLES
    fn,                   \* the function that runs: "merge", "curr", "soc",
                          \* "smooth" or "write" (the loop of preprocess_cycles)
    pc,                   \* "run", "done", or the exception that ended the run
    pass,                 \* merge: 1 for the first call, 2 for a call on its result
    cycles_a, cycles_b,   \* merge: the two input lists
    a, b, m,              \* merge: the two read cursors and the write index
    merged,               \* merge: the preallocated output list
    merge_within,         \* parameter of merge_cycles and extract_cycles_soc
    scenario,             \* extractors: "free", or the name of a fixed input stream
    charge_samples,       \* extractors: the samples consumed so far
    charge_thresh_start, charge_thresh_end,
    min_charge_samples, min_charge_amount,
    max_sample_delay, min_charge_time,
    derivate_span,
    cycles, discarded_cycles,
    charge_start, charge_sample_count, charge_avg_curr,
    last_sample,
    soc_history,          \* soc: the deque of the last derivate_span SoC values
    soc_diff,             \* soc: sample['soc_diff'] of the last sample, a fraction
    samples,              \* smooth: the samples smoothed so far
    alpha, default_value, \* smooth: the smoothing factor, a fraction, and the default
    max_age,              \* smooth: the staleness window of is_valid, or None
    charge,               \* preprocess_cycles: the rows read from the database
    cycles_curr, cycles_curr_disc,
    cycles_soc, cycles_soc_disc,
    written,              \* preprocess_cycles: the rows handed to cursor.execute
    call_last, call_new,  \* can_merge called on its own: its first two arguments
    returned              \* can_merge called on its own: the value returned, or None

mergeVars == <<pass, cycles_a, cycles_b, a, b, m, merged>>
paramVars == <<charge_thresh_start, charge_thresh_end, min_charge_samples,
               min_charge_amount, max_sample_delay, min_charge_time, derivate_span>>
extractVars == <<scenario, charge_samples, cycles, discarded_cycles, charge_start,
                 charge_sample_count, charge_avg_curr, last_sample, soc_history,
                 soc_diff>>
smoothVars == <<samples, alpha, default_value, max_age>>
pipeVars == <<charge, cycles_curr, cycles_curr_disc, cycles_soc, cycles_soc_disc, written>>
callVars == <<call_last, call_new, returned>>
vars == <<fn, pc, merge_within, mergeVars, paramVars, extractVars, smoothVars, pipeVars,
          callVars>>

-----------------------------------------------------------------------------
(* Bounds of the model. *)

\* merge_cycles: input time stamps range over 0..MaxTime
MaxTime == 3
\* merge_cycles: each input list has at most MaxLen cycles
MaxLen == 2
\* extract_cycles_curr: a free sample stream has at most MaxSamples samples
MaxSamples == 3
\* extract_cycles_curr: a steady sample stream has at most MaxSteady samples
MaxSteady == 6
\* extract_cycles_soc: a free sample stream has at most MaxSocSamples samples
MaxSocSamples == 7
\* smooth: a stream has at most MaxSmooth samples
MaxSmooth == 4
\* preprocess_cycles: the database holds at most MaxRows rows
MaxRows == 4

None == <<>>
Some(x) == <<x>>
IsNone(x) == x = <<>>
Val(x) == x[1]

Max(x, y) == IF x >= y THEN x ELSE y
Min(x, y) == IF x <= y THEN x ELSE y

-----------------------------------------------------------------------------
(* can_merge *)

\* ChargeCycle.py:86-89, the four time stamps can_merge reads
Intersect(last_cycle, new_cycle) ==
    Max(last_cycle.start.Stamp, new_cycle.start.Stamp)
        <= Min(last_cycle.end.Stamp, new_cycle.end.Stamp)

Gap(last_cycle, new_cycle) == new_cycle.start.Stamp - last_cycle.end.Stamp

\* mutant: line 95 asserts a gap of more than one second
can_merge_asserts_wide(last_cycle, new_cycle) ==
    /\ ~Intersect(last_cycle, new_cycle)
    /\ ~(Gap(last_cycle, new_cycle) > 1)

\* the assertion of line 95 is reached and fails
can_merge_asserts(last_cycle, new_cycle) ==
    /\ ~Intersect(last_cycle, new_cycle)
    /\ ~(Gap(last_cycle, new_cycle) > 0)

\* mutant: line 99 with <= for <
can_merge_strict(last_cycle, new_cycle, within) ==
    IF Intersect(last_cycle, new_cycle) THEN TRUE
    ELSE LET gap == Gap(last_cycle, new_cycle) IN
         IF gap > within THEN FALSE
         ELSE IF new_cycle.end.Stamp - new_cycle.start.Stamp <= gap THEN FALSE
         ELSE IF last_cycle.end.Stamp - last_cycle.start.Stamp < gap THEN FALSE
         ELSE TRUE

\* the value can_merge returns for a single last_cycle when its assertion
\* holds, lines 92-101
can_merge(last_cycle, new_cycle, within) ==
    IF Intersect(last_cycle, new_cycle) THEN TRUE
    ELSE LET gap == Gap(last_cycle, new_cycle) IN
         IF gap > within THEN FALSE
         ELSE IF new_cycle.end.Stamp - new_cycle.start.Stamp < gap THEN FALSE
         ELSE IF last_cycle.end.Stamp - last_cycle.start.Stamp < gap THEN FALSE
         ELSE TRUE

\* can_merge given a list: lines 82-84
can_merge_list_asserts(last_cycles, new_cycle) ==
    /\ Len(last_cycles) >= 1
    /\ can_merge_asserts(last_cycles[Len(last_cycles)], new_cycle)

can_merge_list(last_cycles, new_cycle, within) ==
    IF Len(last_cycles) < 1 THEN FALSE
    ELSE can_merge(last_cycles[Len(last_cycles)], new_cycle, within)

-----------------------------------------------------------------------------
(* merge_cycles *)

\* a row of the sample stream as merge_cycles reads it: only its Stamp
Stamped(t) == [Stamp |-> t]

\* an input cycle as preprocess_cycles hands it over (lines 284, 286); a
\* cycle over d seconds sampled once a second holds d + 1 samples
InputCycle(s, e, type) ==
    [start |-> Stamped(s), end |-> Stamped(e), sample_count |-> e - s + 1,
     metric |-> 0, type |-> type]

\* the well-formed cycles (start <= end) over 0..MaxTime, the lists of at most
\* MaxLen of them, and those of these lists that are in the order of their
\* starts, each cycle starting later than the one before it
InputCycles(type) ==
    {InputCycle(p[1], p[2], type) : p \in {q \in (0..MaxTime) \X (0..MaxTime) : q[1] <= q[2]}}

AnyLists(type) == UNION {[1..n -> InputCycles(type)] : n \in 0..MaxLen}

InputLists(type) ==
    {l \in AnyLists(type) :
        \A i \in 1..(Len(l) - 1) : l[i].start.Stamp < l[i + 1].start.Stamp}

\* the lists of one cycle
SingleLists(type) == {<<c>> : c \in InputCycles(type)}

\* 0 merges only cycles that intersect; 1 also merges across a gap of one second
MergeWithins == {0, 1}

\* the two single-element lists of the concrete merge scenario
ScenarioA == <<InputCycle(10, 20, "A")>>
ScenarioB == <<InputCycle(25, 40, "S")>>
ScenarioWithins == {10, 2}

\* mutant: the combined cycle from second's start to first's end
MergedCycle_swapped(first, second) ==
    [start |-> second.start.Stamp,
     end |-> first.end.Stamp,
     sample_count |-> first.sample_count + second.sample_count,
     metric |-> second.start.Stamp - first.end.Stamp,
     type |-> "M"]

\* mutant: line 119 counts the samples of first only
MergedCycle_onecount(first, second) ==
    [start |-> first.start.Stamp,
     end |-> second.end.Stamp,
     sample_count |-> first.sample_count,
     metric |-> second.start.Stamp - first.end.Stamp,
     type |-> "M"]

\* the combined cycle of lines 117-121
MergedCycle(first, second) ==
    [start |-> first.start.Stamp,
     end |-> second.end.Stamp,
     sample_count |-> first.sample_count + second.sample_count,
     metric |-> second.start.Stamp - first.end.Stamp,
     type |-> "M"]

\* the slot of the preallocated list not written yet
NoCycle == [type |-> "None"]

\* line 105-106
MergeStart(ca, cb, within) ==
    /\ cycles_a' = ca
    /\ cycles_b' = cb
    /\ merge_within' = within
    /\ merged' = [i \in 1..(Len(ca) + Len(cb)) |-> NoCycle]
    /\ a' = 0 /\ b' = 0 /\ m' = 0

\* mutant: the comparison of line 110 the wrong way round
HeadOfAIsFirst_later == cycles_a[a + 1].start.Stamp > cycles_b[b + 1].start.Stamp

\* mutant: the comparison of line 110 with <= for <
HeadOfAIsFirst_ties == cycles_a[a + 1].start.Stamp <= cycles_b[b + 1].start.Stamp

\* the choice of first and second, lines 108-114: TRUE when cycles_a's head is first
HeadOfAIsFirst == cycles_a[a + 1].start.Stamp < cycles_b[b + 1].start.Stamp

\* one iteration of the main loop, lines 107-124
MergeLoop ==
    /\ fn = "merge" /\ pc = "run"
    /\ a < Len(cycles_a) /\ b < Len(cycles_b)
    /\ LET fromA  == HeadOfAIsFirst
           first  == IF fromA THEN cycles_a[a + 1] ELSE cycles_b[b + 1]
           second == IF fromA THEN cycles_b[b + 1] ELSE cycles_a[a + 1]
       IN /\ a' = IF fromA THEN a + 1 ELSE a
          /\ b' = IF fromA THEN b ELSE b + 1
          /\ IF can_merge_asserts(first, second)
             THEN /\ pc' = "AssertionError"
                  /\ UNCHANGED <<merged, m>>
             ELSE /\ pc' = pc
                  /\ merged' = [merged EXCEPT ![m + 1] =
                                  IF can_merge(first, second, merge_within)
                                  THEN MergedCycle(first, second)
                                  ELSE first]
                  /\ m' = m + 1
    /\ UNCHANGED <<fn, pass, cycles_a, cycles_b, merge_within, paramVars, extractVars,
                 smoothVars, pipeVars, callVars>>

\* mutant: line 128 left out, the write index stays where it is
MergeRestA_nostep ==
    /\ fn = "merge" /\ pc = "run"
    /\ ~(a < Len(cycles_a) /\ b < Len(cycles_b))
    /\ a < Len(cycles_a)
    /\ merged' = [merged EXCEPT ![m + 1] = cycles_a[a + 1]]
    /\ a' = a + 1
    /\ m' = m
    /\ UNCHANGED <<fn, pc, pass, cycles_a, cycles_b, b, merge_within, paramVars, extractVars,
                 smoothVars, pipeVars, callVars>>

\* one iteration of the loop of lines 125-128
MergeRestA ==
    /\ fn = "merge" /\ pc = "run"
    /\ ~(a < Len(cycles_a) /\ b < Len(cycles_b))
    /\ a < Len(cycles_a)
    /\ merged' = [merged EXCEPT ![m + 1] = cycles_a[a + 1]]
    /\ a' = a + 1
    /\ m' = m + 1
    /\ UNCHANGED <<fn, pc, pass, cycles_a, cycles_b, b, merge_within, paramVars, extractVars,
                 smoothVars, pipeVars, callVars>>

\* one iteration of the loop of lines 129-132
MergeRestB ==
    /\ fn = "merge" /\ pc = "run"
    /\ ~(a < Len(cycles_a) /\ b < Len(cycles_b))
    /\ ~(a < Len(cycles_a))
    /\ b < Len(cycles_b)
    /\ merged' = [merged EXCEPT ![m + 1] = cycles_b[b + 1]]
    /\ b' = b + 1
    /\ m' = m + 1
    /\ UNCHANGED <<fn, pc, pass, cycles_a, cycles_b, a, merge_within, paramVars, extractVars,
                 smoothVars, pipeVars, callVars>>

\* mutant: the slice of line 133 one element short
MergeReturn_short ==
    /\ fn = "merge" /\ pc = "run"
    /\ ~(a < Len(cycles_a)) /\ ~(b < Len(cycles_b))
    /\ merged' = SubSeq(merged, 1, m - 1)
    /\ pc' = "done"
    /\ UNCHANGED <<fn, pass, cycles_a, cycles_b, a, b, m, merge_within, paramVars, extractVars,
                 smoothVars, pipeVars, callVars>>

\* line 133: merged[0:m]
MergeReturn ==
    /\ fn = "merge" /\ pc = "run"
    /\ ~(a < Len(cycles_a)) /\ ~(b < Len(cycles_b))
    /\ merged' = SubSeq(merged, 1, m)
    /\ pc' = "done"
    /\ UNCHANGED <<fn, pass, cycles_a, cycles_b, a, b, m, merge_within, paramVars, extractVars,
                 smoothVars, pipeVars, callVars>>

\* a second call of merge_cycles, on the list the first call returned and an
\* empty list, in either argument order
MergeAgain ==
    /\ fn = "merge" /\ pc = "done" /\ pass = 1
    /\ pass' = 2
    /\ pc' = "run"
    /\ \/ MergeStart(merged, <<>>, merge_within)
       \/ MergeStart(<<>>, merged, merge_within)
    /\ UNCHANGED <<fn, paramVars, extractVars,
                 smoothVars, pipeVars, callVars>>

\* the extractors' variables while merge_cycles runs
ExtractIdle ==
    /\ scenario = "free"
    /\ charge_samples = <<>>
    /\ charge_thresh_start = 0 /\ charge_thresh_end = 0
    /\ min_charge_samples = 0 /\ min_charge_amount = 0
    /\ max_sample_delay = 0 /\ min_charge_time = 0
    /\ derivate_span = 0
    /\ cycles = <<>> /\ discarded_cycles = <<>>
    /\ charge_start = None
    /\ charge_sample_count = 0
    /\ charge_avg_curr = <<0, 1>>
    /\ last_sample = None
    /\ soc_history = <<>>
    /\ soc_diff = <<0, 1>>

\* the smoother's variables while another function runs
SmoothIdle ==
    /\ samples = <<>>
    /\ alpha = <<0, 1>>
    /\ default_value = None
    /\ max_age = None

\* preprocess_cycles' variables while a function runs on its own
PipeIdle ==
    /\ charge = <<>>
    /\ cycles_curr = <<>> /\ cycles_curr_disc = <<>>
    /\ cycles_soc = <<>> /\ cycles_soc_disc = <<>>
    /\ written = <<>>

\* the variables of a call of can_merge on its own while another function runs
CallIdle ==
    /\ call_last = None
    /\ call_new = None
    /\ returned = None

InitMerge ==
    /\ fn = "merge" /\ pc = "run" /\ pass = 1
    /\ SmoothIdle /\ PipeIdle /\ CallIdle
    /\ \/ /\ cycles_a \in InputLists("A")
          /\ cycles_b \in InputLists("S")
          /\ merge_within \in MergeWithins
       \/ /\ cycles_a \in AnyLists("A")
          /\ cycles_b = <<>>
          /\ merge_within \in MergeWithins
       \/ /\ cycles_a = <<>>
          /\ cycles_b \in AnyLists("S")
          /\ merge_within \in MergeWithins
       \/ /\ cycles_a \in AnyLists("A")
          /\ cycles_b \in SingleLists("S")
          /\ merge_within = 0
       \/ /\ cycles_a = ScenarioA
          /\ cycles_b = ScenarioB
          /\ merge_within \in ScenarioWithins
    /\ merged = [i \in 1..(Len(cycles_a) + Len(cycles_b)) |-> NoCycle]
    /\ a = 0 /\ b = 0 /\ m = 0
    /\ ExtractIdle

NextMerge == MergeLoop \/ MergeRestA \/ MergeRestB \/ MergeReturn \/ MergeAgain

SpecMerge == InitMerge /\ [][NextMerge]_vars

-----------------------------------------------------------------------------
(* The sample streams of the extractors *)

\* a row of the query of lines 270-273
Sample(t, curr, soc) == [Stamp |-> t, ChargingCurr |-> curr, soc_smooth |-> soc]

\* the time stamps the next row may have: rows come in strictly increasing
\* Stamp order (ORDER BY Stamp ASC), the first one at 0
NextStamps(deltas) ==
    IF charge_samples = <<>> THEN {0}
    ELSE {charge_samples[Len(charge_samples)].Stamp + d : d \in deltas}

\* the concrete stream of the threshold scenario, as <<seconds, ChargingCurr>>
ScenarioC9 == <<<<0, 5>>, <<60, 5>>, <<120, 55>>, <<180, 60>>, <<240, 5>>>>

\* free streams: any of three currents (below, between and above the
\* thresholds 40 and 50), one or two seconds after the row before, with any
\* of two SoC values
CurrValues == {35, 45, 55}
CurrDeltas == {1, 2}
SocValues == {0, 1}
\* steady streams are longer: the current is low or high and the SoC rises by
\* one with every row
SteadyValues == {35, 55}

\* the rows that may come next in the stream of extract_cycles_curr
CurrInputs ==
    LET n == Len(charge_samples) IN
    CASE scenario = "free" ->
           IF n >= MaxSamples THEN {}
           ELSE {Sample(t, v, s) : t \in NextStamps(CurrDeltas), v \in CurrValues, s \in SocValues}
      [] scenario = "steady" ->
           IF n >= MaxSteady THEN {}
           ELSE {Sample(t, v, n) : t \in NextStamps(CurrDeltas), v \in SteadyValues}
      [] scenario = "C9" ->
           IF n >= Len(ScenarioC9) THEN {}
           ELSE {Sample(ScenarioC9[n + 1][1], ScenarioC9[n + 1][2], s) : s \in SocValues}
      [] scenario = "pipeline" ->
           IF n >= Len(charge) THEN {} ELSE {charge[n + 1]}

\* the loop over charge_samples may end here: a stream of its own ends after
\* any row, the rows preprocess_cycles read end after the last of them
StreamEnded == scenario = "pipeline" => Len(charge_samples) = Len(charge)

-----------------------------------------------------------------------------
(* extract_cycles_curr *)

\* a cycle as the extractors build it: lines 170, 250 and 253
Cycle(start, end, count, metric) ==
    [start |-> start, end |-> end, sample_count |-> count, metric |-> metric]

\* mutant: the duration test of line 173 with >= for >
Accepted_nonstrict(start, end, count) ==
    /\ end.Stamp - start.Stamp >= min_charge_time
    /\ count > min_charge_samples
    /\ end.soc_smooth - start.soc_smooth > min_charge_amount

\* mutant: the sample count test of line 174 with >= for >
Accepted_samples(start, end, count) ==
    /\ end.Stamp - start.Stamp > min_charge_time
    /\ count >= min_charge_samples
    /\ end.soc_smooth - start.soc_smooth > min_charge_amount

\* the acceptance test of lines 173-175 (and 245-247)
Accepted(start, end, count) ==
    /\ end.Stamp - start.Stamp > min_charge_time
    /\ count > min_charge_samples
    /\ end.soc_smooth - start.soc_smooth > min_charge_amount

\* charge_avg_curr is a fraction <<numerator, denominator>>; line 167 is
\* (avg + value) / 2
AvgOf(value) == <<value, 1>>
AvgStep(avg, value) == <<avg[1] + value * avg[2], 2 * avg[2]>>

\* lines 150, 158 and 161: the three tests of the state machine
CurrStarts(sample) == sample.ChargingCurr > charge_thresh_start
\* mutant: line 158 tests against the start threshold
CurrStops_start(sample) == sample.ChargingCurr < charge_thresh_start
CurrStops(sample) == sample.ChargingCurr < charge_thresh_end
TimedOut(sample) == sample.Stamp - Val(last_sample).Stamp > max_sample_delay

\* mutant: the cycle closes at the sample that closes it
CurrChargeEnd_current(sample) ==
    IF CurrStops(sample) THEN Some(sample)
    ELSE IF TimedOut(sample) THEN Some(sample)
    ELSE None

\* charge_end after lines 158-167: the last sample when the cycle closes, None
\* when it goes on
CurrChargeEnd(sample) ==
    IF CurrStops(sample) THEN last_sample
    ELSE IF TimedOut(sample) THEN last_sample
    ELSE None

\* mutant: lines 179-182 left out, the machine stays in Charging
CurrClose_noreset(charge_end) ==
    LET cycle == Cycle(Val(charge_start), Val(charge_end), charge_sample_count, charge_avg_curr) IN
    /\ IF Accepted(Val(charge_start), Val(charge_end), charge_sample_count)
       THEN /\ cycles' = Append(cycles, cycle)
            /\ UNCHANGED discarded_cycles
       ELSE /\ discarded_cycles' = Append(discarded_cycles, cycle)
            /\ UNCHANGED cycles
    /\ UNCHANGED <<charge_start, charge_sample_count, charge_avg_curr>>

\* lines 169-182: the closed cycle goes to one of the two lists
CurrClose(charge_end) ==
    LET cycle == Cycle(Val(charge_start), Val(charge_end), charge_sample_count, charge_avg_curr) IN
    /\ IF Accepted(Val(charge_start), Val(charge_end), charge_sample_count)
       THEN /\ cycles' = Append(cycles, cycle)
            /\ UNCHANGED discarded_cycles
       ELSE /\ discarded_cycles' = Append(discarded_cycles, cycle)
            /\ UNCHANGED cycles
    /\ charge_start' = None
    /\ charge_sample_count' = 0
    /\ charge_avg_curr' = AvgOf(0)

\* mutant: line 153 starts the count at 0, the sample that opens the cycle is
\* not counted
CurrBody_uncounted(sample) ==
    /\ IF IsNone(charge_start)
       THEN IF CurrStarts(sample)
            THEN /\ charge_start' = Some(sample)
                 /\ charge_sample_count' = 0
                 /\ charge_avg_curr' = AvgOf(sample.ChargingCurr)
                 /\ UNCHANGED <<cycles, discarded_cycles>>
            ELSE UNCHANGED <<charge_start, charge_sample_count, charge_avg_curr,
                             cycles, discarded_cycles>>
       ELSE LET charge_end == CurrChargeEnd(sample) IN
            IF ~IsNone(charge_end)
            THEN CurrClose(charge_end)
            ELSE /\ charge_sample_count' = charge_sample_count + 1
                 /\ charge_avg_curr' = AvgStep(charge_avg_curr, sample.ChargingCurr)
                 /\ UNCHANGED <<charge_start, cycles, discarded_cycles>>
    /\ last_sample' = Some(sample)
    /\ charge_samples' = Append(charge_samples, sample)

\* one iteration of the loop of lines 147-183 on the row `sample`
CurrBody(sample) ==
    /\ IF IsNone(charge_start)
       THEN IF CurrStarts(sample)
            THEN /\ charge_start' = Some(sample)
                 /\ charge_sample_count' = 1
                 /\ charge_avg_curr' = AvgOf(sample.ChargingCurr)
                 /\ UNCHANGED <<cycles, discarded_cycles>>
            ELSE UNCHANGED <<charge_start, charge_sample_count, charge_avg_curr,
                             cycles, discarded_cycles>>
       ELSE LET charge_end == CurrChargeEnd(sample) IN
            IF ~IsNone(charge_end)
            THEN CurrClose(charge_end)
            ELSE /\ charge_sample_count' = charge_sample_count + 1
                 /\ charge_avg_curr' = AvgStep(charge_avg_curr, sample.ChargingCurr)
                 /\ UNCHANGED <<charge_start, cycles, discarded_cycles>>
    /\ last_sample' = Some(sample)
    /\ charge_samples' = Append(charge_samples, sample)

CurrStep ==
    /\ fn = "curr" /\ pc = "run"
    /\ \E sample \in CurrInputs : CurrBody(sample)
    /\ UNCHANGED <<fn, pc, merge_within, mergeVars, paramVars, scenario, soc_history, soc_diff,
                 smoothVars, pipeVars, callVars>>

\* mutant: the open interval is closed at the last sample when the stream ends
CurrReturn_flush ==
    /\ fn = "curr" /\ pc = "run"
    /\ StreamEnded
    /\ pc' = "done"
    /\ IF IsNone(charge_start)
       THEN UNCHANGED <<cycles, discarded_cycles, charge_start, charge_sample_count,
                        charge_avg_curr>>
       ELSE CurrClose(last_sample)
    /\ UNCHANGED <<fn, merge_within, mergeVars, paramVars, scenario, charge_samples,
                   last_sample, soc_history, soc_diff, smoothVars, pipeVars, callVars>>

\* line 184: the stream has ended
CurrReturn ==
    /\ fn = "curr" /\ pc = "run"
    /\ StreamEnded
    /\ pc' = "done"
    /\ UNCHANGED <<fn, merge_within, mergeVars, paramVars, extractVars,
                 smoothVars, pipeVars, callVars>>

\* merge_cycles' variables while an extractor runs
MergeIdle ==
    /\ pass = 0
    /\ cycles_a = <<>> /\ cycles_b = <<>>
    /\ a = 0 /\ b = 0 /\ m = 0
    /\ merged = <<>>

\* lines 140-146
ExtractStart ==
    /\ charge_samples = <<>>
    /\ cycles = <<>> /\ discarded_cycles = <<>>
    /\ charge_start = None
    /\ charge_sample_count = 0
    /\ charge_avg_curr = AvgOf(0)
    /\ last_sample = None
    /\ soc_history = <<>>
    /\ soc_diff = <<0, 1>>

\* the threshold settings of the free and steady streams: equal thresholds,
\* the stop threshold below the start threshold, and above it
CurrThresholds == {<<50, 50>>, <<50, 40>>, <<40, 50>>}
MinChargeTimes == {0, 1}
MinChargeSamples == {0, 1}
\* a cycle of extract_cycles_curr that lasts holds two samples or more: its
\* sample count is tested against none and against two
CurrMinChargeSamples == {0, 2}

InitCurr ==
    /\ fn = "curr" /\ pc = "run"
    /\ SmoothIdle /\ PipeIdle /\ CallIdle
    /\ MergeIdle /\ merge_within = 0
    /\ ExtractStart
    /\ derivate_span = 0
    /\ min_charge_amount = 0
    /\ \/ /\ scenario \in {"free", "steady"}
          /\ \E th \in CurrThresholds :
                charge_thresh_start = th[1] /\ charge_thresh_end = th[2]
          /\ min_charge_time \in MinChargeTimes
          /\ min_charge_samples \in CurrMinChargeSamples
          /\ max_sample_delay = 1
       \/ /\ scenario = "C9"
          /\ charge_thresh_start = 50 /\ charge_thresh_end = 50
          /\ min_charge_time = 60
          /\ min_charge_samples = 1
          /\ max_sample_delay = 600

NextCurr == CurrStep \/ CurrReturn

SpecCurr == InitCurr /\ [][NextCurr]_vars

-----------------------------------------------------------------------------
(* extract_cycles_soc *)

\* the current of the rows of the SoC streams: extract_cycles_soc does not read it
SocCurr == 55
\* free streams: one or two seconds after the row before, the SoC as before
\* or one higher, starting from 0
SocDeltas == {1, 2}
SocRises == {0, 1}
\* the time stamps of the gap streams: a long interval, a short one, a long one
ScenarioGaps == <<0, 1, 6, 8, 9, 11, 16>>

\* the rows that may come next in the stream of extract_cycles_soc
SocInputs ==
    LET n == Len(charge_samples)
        Socs == IF n = 0 THEN {0} ELSE {charge_samples[n].soc_smooth + r : r \in SocRises}
    IN
    CASE scenario = "free" ->
           IF n >= MaxSocSamples THEN {}
           ELSE {Sample(t, SocCurr, s) : t \in NextStamps(SocDeltas), s \in Socs}
      [] scenario = "gaps" ->
           IF n >= Len(ScenarioGaps) THEN {}
           ELSE {Sample(ScenarioGaps[n + 1], SocCurr, s) : s \in Socs}
      [] scenario = "pipeline" ->
           IF n >= Len(charge) THEN {} ELSE {charge[n + 1]}

RECURSIVE Sum(_)
Sum(h) == IF h = <<>> THEN 0 ELSE h[1] + Sum(Tail(h))

\* mutant: a deque without maxlen
DequeAppend_unbounded(h, x) == Append(h, x)

\* line 203: append to a deque of maxlen derivate_span
DequeAppend(h, x) ==
    IF Len(h) >= derivate_span THEN Append(Tail(h), x) ELSE Append(h, x)

\* lines 204-211 raise ZeroDivisionError: the window is full and a half of it
\* is empty
DiffDividesByZero(h) ==
    LET l == Len(h) IN
    l >= derivate_span /\ (l \div 2 = 0 \/ l - l \div 2 = 0)

\* lines 204-211: sample['soc_diff'] as a fraction <<numerator, denominator>>,
\* new_avg - old_avg = Sum(new)/|new| - Sum(old)/|old|
SocDiff(h) ==
    LET l == Len(h) IN
    IF l >= derivate_span
    THEN LET old == SubSeq(h, 1, l \div 2)
             new == SubSeq(h, l \div 2 + 1, l)
         IN <<Sum(new) * Len(old) - Sum(old) * Len(new), Len(new) * Len(old)>>
    ELSE <<0, 1>>

\* lines 215 and 222: the derivative against the two thresholds
SocStarts(diff) == diff[1] > charge_thresh_start * diff[2]
SocStops(diff) == diff[1] < charge_thresh_end * diff[2]

\* charge_end after lines 222-230: the current sample when the derivative
\* has dropped, the last sample on a timeout, None when the cycle goes on
SocChargeEnd(sample, diff) ==
    IF SocStops(diff) THEN Some(sample)
    ELSE IF TimedOut(sample) THEN last_sample
    ELSE None

\* mutant: line 243 left out, the discarded tail stays in its list
Front_keep(l) == l

\* the list without its last element: del discarded_cycles[-1]
Front(l) == SubSeq(l, 1, Len(l) - 1)
Last(l) == l[Len(l)]

\* line 235-236: the accepted tail extended by the candidate
ExtendedTail(tail, charge_end) ==
    Cycle(tail.start, charge_end, tail.metric + charge_sample_count,
          charge_end.soc_smooth - tail.start.soc_smooth)

\* lines 245-254: the candidate, after the merge with the discarded tail if
\* there was one, goes to one of the two lists
SocEvaluate(start, end, count, discarded) ==
    LET cycle == Cycle(start, end, count, end.soc_smooth - start.soc_smooth) IN
    IF Accepted(start, end, count)
    THEN /\ cycles' = Append(cycles, cycle)
         /\ discarded_cycles' = discarded
    ELSE /\ discarded_cycles' = Append(discarded, cycle)
         /\ cycles' = cycles

\* lines 232-258
SocClose(charge_end) ==
    LET candidate == [start |-> Val(charge_start), end |-> Val(charge_end)] IN
    IF can_merge_list_asserts(cycles, candidate)
    THEN /\ pc' = "AssertionError"
         /\ UNCHANGED <<cycles, discarded_cycles, charge_start, charge_sample_count>>
    ELSE IF can_merge_list(cycles, candidate, merge_within)
    THEN /\ cycles' = [cycles EXCEPT ![Len(cycles)] = ExtendedTail(Last(cycles), Val(charge_end))]
         /\ charge_start' = None
         /\ charge_sample_count' = 0
         /\ UNCHANGED <<pc, discarded_cycles>>
    ELSE IF can_merge_list_asserts(discarded_cycles, candidate)
    THEN /\ pc' = "AssertionError"
         /\ UNCHANGED <<cycles, discarded_cycles, charge_start, charge_sample_count>>
    ELSE /\ IF can_merge_list(discarded_cycles, candidate, merge_within)
            THEN SocEvaluate(Last(discarded_cycles).start, Val(charge_end),
                             charge_sample_count + Last(discarded_cycles).sample_count,
                             Front(discarded_cycles))
            ELSE SocEvaluate(Val(charge_start), Val(charge_end), charge_sample_count,
                             discarded_cycles)
         /\ charge_start' = None
         /\ charge_sample_count' = 0
         /\ UNCHANGED pc

\* one iteration of the loop of lines 199-260 on the row `sample`
SocBody(sample) ==
    LET h == DequeAppend(soc_history, sample.soc_smooth) IN
    /\ soc_history' = h
    /\ charge_samples' = Append(charge_samples, sample)
    /\ IF DiffDividesByZero(h)
       THEN /\ pc' = "ZeroDivisionError"
            /\ UNCHANGED <<soc_diff, cycles, discarded_cycles, charge_start,
                           charge_sample_count, last_sample>>
       ELSE LET diff == SocDiff(h) IN
            /\ soc_diff' = diff
            /\ IF IsNone(charge_start)
               THEN IF SocStarts(diff)
                    THEN /\ charge_start' = Some(sample)
                         /\ charge_sample_count' = 1
                         /\ UNCHANGED <<pc, cycles, discarded_cycles>>
                    ELSE UNCHANGED <<pc, charge_start, charge_sample_count,
                                     cycles, discarded_cycles>>
               ELSE LET charge_end == SocChargeEnd(sample, diff) IN
                    IF ~IsNone(charge_end)
                    THEN SocClose(charge_end)
                    ELSE /\ charge_sample_count' = charge_sample_count + 1
                         /\ UNCHANGED <<pc, charge_start, cycles, discarded_cycles>>
            /\ last_sample' = IF pc' = "run" THEN Some(sample) ELSE last_sample

SocStep ==
    /\ fn = "soc" /\ pc = "run"
    /\ \E sample \in SocInputs : SocBody(sample)
    /\ UNCHANGED <<fn, merge_within, mergeVars, paramVars, scenario, charge_avg_curr,
                 smoothVars, pipeVars, callVars>>

\* line 261: the stream has ended
SocReturn ==
    /\ fn = "soc" /\ pc = "run"
    /\ StreamEnded
    /\ pc' = "done"
    /\ UNCHANGED <<fn, merge_within, mergeVars, paramVars, extractVars,
                 smoothVars, pipeVars, callVars>>

\* the settings of the free streams
DerivateSpans == {1, 2, 3}
SocThresholds == {<<0, 1>>, <<0, 2>>}
MaxSampleDelays == {1, 2}

InitSoc ==
    /\ fn = "soc" /\ pc = "run"
    /\ SmoothIdle /\ PipeIdle /\ CallIdle
    /\ MergeIdle
    /\ ExtractStart
    /\ min_charge_amount = 0
    /\ min_charge_time = 0
    /\ \/ /\ scenario = "free"
          /\ derivate_span \in DerivateSpans
          /\ \E th \in SocThresholds :
                charge_thresh_start = th[1] /\ charge_thresh_end = th[2]
          /\ min_charge_samples \in MinChargeSamples
          /\ max_sample_delay \in MaxSampleDelays
          /\ merge_within = 2
       \/ /\ scenario = "gaps"
          /\ derivate_span = 2
          /\ charge_thresh_start = 0 /\ charge_thresh_end = 2
          /\ min_charge_samples = 0
          /\ max_sample_delay = 5
          /\ merge_within = 5

NextSoc == SocStep \/ SocReturn

SpecSoc == InitSoc /\ [][NextSoc]_vars

-----------------------------------------------------------------------------
(* The two extractors: a run is a run of one of them *)

InitExtract == InitCurr \/ InitSoc

NextExtract == NextCurr \/ NextSoc

SpecExtract == InitExtract /\ [][NextExtract]_vars

-----------------------------------------------------------------------------
(* smooth *)

\* a row handed to smooth: its Stamp and sample[label], None when the row has
\* no value under label
RawSample(t, v) == [Stamp |-> t, value |-> v]

\* the rows of the smoothed streams: one second or three seconds after the
\* row before, without a value or with one of three values, 0 among them
SmoothDeltas == {1, 3}
RawValues == {None, Some(0), Some(1), Some(2)}

\* smooth_reset_stale(timedelta(minutes=5)), in the seconds of the model: one
\* of SmoothDeltas is within the window and one is beyond it
StaleAge == 2

\* the three ways smooth is called, as <<alpha, default_value, max_age>>: with
\* its defaults, by smooth_func and by preprocess_soc_func
SmoothConfigs ==
    {<<<<19, 20>>, None, None>>,
     <<<<19, 20>>, None, Some(StaleAge)>>,
     <<<<7, 10>>, Some(<<0, 1>>), Some(StaleAge)>>}

SmoothInputs ==
    IF Len(samples) >= MaxSmooth THEN {}
    ELSE {RawSample(t, v) :
            t \in IF samples = <<>> THEN {0}
                  ELSE {samples[Len(samples)].Stamp + d : d \in SmoothDeltas},
            v \in RawValues}

\* lines 55 and 63: sample and label in sample and sample[label]
HasValue(sample) == ~IsNone(sample.value) /\ Val(sample.value) # 0

\* lines 56-57 and 64-65: last_sample and label_smooth in last_sample and
\* last_sample[label_smooth]; a smoothed value is a fraction
HasPrior ==
    /\ ~IsNone(last_sample)
    /\ ~IsNone(Val(last_sample).value_smooth)
    /\ Val(Val(last_sample).value_smooth)[1] # 0

\* is_valid = smooth_reset_stale(max_age): the row before is not older than
\* max_age; without an is_valid every row before is valid
is_valid(sample) ==
    IsNone(max_age) \/ ~(sample.Stamp - Val(last_sample).Stamp > Val(max_age))

\* a prior smoothed value exists and is not stale
PriorUsable(sample) == HasPrior /\ is_valid(sample)

\* lines 70-71: alpha * last_sample[label_smooth] + (1 - alpha) * sample[label]
Blend(prev, raw) ==
    <<alpha[1] * prev[1] + (alpha[2] - alpha[1]) * raw * prev[2], alpha[2] * prev[2]>>

\* line 67: the first sensible value is the starting point of the smoothing
FirstValue(raw) == <<raw, 1>>

\* lines 55-71: sample[label_smooth]
Smoothed(sample) ==
    IF ~HasValue(sample)
    THEN IF ~PriorUsable(sample)
         THEN default_value
         ELSE Val(last_sample).value_smooth
    ELSE IF ~PriorUsable(sample)
         THEN Some(FirstValue(Val(sample.value)))
         ELSE Some(Blend(Val(Val(last_sample).value_smooth), Val(sample.value)))

\* one iteration of the loop of lines 54-72
SmoothStep ==
    /\ fn = "smooth" /\ pc = "run"
    /\ \E sample \in SmoothInputs :
          LET smoothed == [Stamp |-> sample.Stamp, value |-> sample.value,
                           value_smooth |-> Smoothed(sample)]
          IN /\ samples' = Append(samples, smoothed)
             /\ last_sample' = Some(smoothed)
    /\ UNCHANGED <<fn, pc, merge_within, mergeVars, paramVars, scenario, charge_samples,
                   cycles, discarded_cycles, charge_start, charge_sample_count,
                   charge_avg_curr, soc_history, soc_diff,
                   alpha, default_value, max_age, pipeVars, callVars>>

\* the loop has read all samples
SmoothReturn ==
    /\ fn = "smooth" /\ pc = "run"
    /\ pc' = "done"
    /\ UNCHANGED <<fn, merge_within, mergeVars, paramVars, extractVars,
                   smoothVars, pipeVars, callVars>>

InitSmooth ==
    /\ fn = "smooth" /\ pc = "run"
    /\ MergeIdle /\ merge_within = 0
    /\ ExtractIdle /\ PipeIdle /\ CallIdle
    /\ samples = <<>>
    /\ \E c \in SmoothConfigs :
          alpha = c[1] /\ default_value = c[2] /\ max_age = c[3]

NextSmooth == SmoothStep \/ SmoothReturn

SpecSmooth == InitSmooth /\ [][NextSmooth]_vars

-----------------------------------------------------------------------------
(* preprocess_cycles *)

\* the rows of the query of lines 270-273, in Stamp order: a low or a high
\* current, one or three seconds after the row before, the SoC as before or
\* one higher
PipeDeltas == {1, 3}

RECURSIVE RowsOfLen(_)
RowsOfLen(n) ==
    IF n = 0 THEN {<<>>}
    ELSE {Append(rows, Sample(IF rows = <<>> THEN 0 ELSE rows[Len(rows)].Stamp + d,
                              v,
                              IF rows = <<>> THEN 0 ELSE rows[Len(rows)].soc_smooth + r)) :
            rows \in RowsOfLen(n - 1), d \in PipeDeltas, v \in SteadyValues, r \in SocRises}

Rows == UNION {RowsOfLen(n) : n \in 0..MaxRows}

\* preprocess_cycles calls both extractors and merge_cycles with their
\* defaults (lines 137-138, 188-190 and 104).  In the seconds and the few rows
\* of the model: thresholds of 50 on the current and just above 0 on the
\* derivative, more than one sample, a gap of three seconds is a timeout and a
\* gap of at most two seconds can be merged over
PipeCurrParams ==
    [charge_thresh_start |-> 50, charge_thresh_end |-> 50, min_charge_samples |-> 1,
     min_charge_amount |-> 0, max_sample_delay |-> 2, min_charge_time |-> 0]
PipeSocParams ==
    [derivate_span |-> 2, charge_thresh_start |-> 0, charge_thresh_end |-> 1,
     min_charge_samples |-> 1, max_sample_delay |-> 2, min_charge_time |-> 1,
     min_charge_amount |-> 0]
PipeMergeWithin == 2

\* lines 284-287: the cycles of l with the type code added
Tagged(l, type) ==
    [i \in 1..Len(l) |->
        [start |-> l[i].start, end |-> l[i].end, sample_count |-> l[i].sample_count,
         metric |-> l[i].metric, type |-> type]]

\* line 279 has returned; line 281 calls extract_cycles_soc on the same rows
PipeSoc ==
    /\ fn = "curr" /\ pc = "done" /\ scenario = "pipeline"
    /\ cycles_curr' = cycles
    /\ cycles_curr_disc' = discarded_cycles
    /\ fn' = "soc" /\ pc' = "run"
    /\ charge_samples' = <<>>
    /\ cycles' = <<>> /\ discarded_cycles' = <<>>
    /\ charge_start' = None
    /\ charge_sample_count' = 0
    /\ charge_avg_curr' = AvgOf(0)
    /\ last_sample' = None
    /\ soc_history' = <<>>
    /\ soc_diff' = <<0, 1>>
    /\ derivate_span' = PipeSocParams.derivate_span
    /\ charge_thresh_start' = PipeSocParams.charge_thresh_start
    /\ charge_thresh_end' = PipeSocParams.charge_thresh_end
    /\ min_charge_samples' = PipeSocParams.min_charge_samples
    /\ max_sample_delay' = PipeSocParams.max_sample_delay
    /\ min_charge_time' = PipeSocParams.min_charge_time
    /\ min_charge_amount' = PipeSocParams.min_charge_amount
    /\ UNCHANGED <<merge_within, mergeVars, scenario, smoothVars, charge,
                   cycles_soc, cycles_soc_disc, written, callVars>>

\* line 281 has returned; lines 284-290 tag the four lists and call merge_cycles
PipeMerge ==
    /\ fn = "soc" /\ pc = "done" /\ scenario = "pipeline"
    /\ cycles_curr' = Tagged(cycles_curr, "A")
    /\ cycles_curr_disc' = Tagged(cycles_curr_disc, "B")
    /\ cycles_soc' = Tagged(cycles, "S")
    /\ cycles_soc_disc' = Tagged(discarded_cycles, "T")
    /\ fn' = "merge" /\ pc' = "run"
    /\ MergeStart(Tagged(cycles_curr, "A"), Tagged(cycles, "S"), PipeMergeWithin)
    /\ UNCHANGED <<pass, paramVars, extractVars, smoothVars, charge, written, callVars>>

\* line 298: cycles_merged + cycles_curr_disc + cycles_soc_disc
ToWrite == merged \o cycles_curr_disc \o cycles_soc_disc

\* line 303: the parameters of the INSERT; imei is the same for all rows
InsertRow(cycle) ==
    [start_time |-> cycle.start.Stamp, end_time |-> cycle.end.Stamp,
     sample_count |-> cycle.sample_count, avg_thresh_val |-> cycle.metric,
     type |-> cycle.type]

\* line 290 has returned; the loop of line 298 begins
PipeWriteStart ==
    /\ fn = "merge" /\ pc = "done" /\ scenario = "pipeline"
    /\ fn' = "write" /\ pc' = "run"
    /\ UNCHANGED <<merge_within, mergeVars, paramVars, extractVars, smoothVars, pipeVars,
                   callVars>>

\* one iteration of the loop of lines 298-303.  A combined cycle holds bare
\* time stamps (line 117-121), and cycle[0]['Stamp'] raises TypeError on it
PipeWrite ==
    /\ fn = "write" /\ pc = "run"
    /\ Len(written) < Len(ToWrite)
    /\ LET cycle == ToWrite[Len(written) + 1] IN
       IF cycle.type = "M"
       THEN pc' = "TypeError" /\ UNCHANGED written
       ELSE pc' = pc /\ written' = Append(written, InsertRow(cycle))
    /\ UNCHANGED <<fn, merge_within, mergeVars, paramVars, extractVars, smoothVars, charge,
                   cycles_curr, cycles_curr_disc, cycles_soc, cycles_soc_disc, callVars>>

\* the loop of line 298 has ended
PipeReturn ==
    /\ fn = "write" /\ pc = "run"
    /\ Len(written) = Len(ToWrite)
    /\ pc' = "done"
    /\ UNCHANGED <<fn, merge_within, mergeVars, paramVars, extractVars, smoothVars, pipeVars,
                   callVars>>

\* lines 275-279: the rows are read and extract_cycles_curr is called
InitPipe ==
    /\ fn = "curr" /\ pc = "run"
    /\ scenario = "pipeline"
    /\ charge \in Rows
    /\ MergeIdle /\ merge_within = PipeMergeWithin
    /\ SmoothIdle /\ CallIdle
    /\ ExtractStart
    /\ derivate_span = 0
    /\ charge_thresh_start = PipeCurrParams.charge_thresh_start
    /\ charge_thresh_end = PipeCurrParams.charge_thresh_end
    /\ min_charge_samples = PipeCurrParams.min_charge_samples
    /\ min_charge_amount = PipeCurrParams.min_charge_amount
    /\ max_sample_delay = PipeCurrParams.max_sample_delay
    /\ min_charge_time = PipeCurrParams.min_charge_time
    /\ cycles_curr = <<>> /\ cycles_curr_disc = <<>>
    /\ cycles_soc = <<>> /\ cycles_soc_disc = <<>>
    /\ written = <<>>

NextPipe ==
    \/ CurrStep \/ CurrReturn \/ PipeSoc
    \/ SocStep \/ SocReturn \/ PipeMerge
    \/ MergeLoop \/ MergeRestA \/ MergeRestB \/ MergeReturn \/ PipeWriteStart
    \/ PipeWrite \/ PipeReturn

SpecPipe == InitPipe /\ [][NextPipe]_vars

-----------------------------------------------------------------------------
(* can_merge called on its own *)

\* the merge_within of the calls: no gap, a gap of one second, of two seconds
CallWithins == {0, 1, 2}

\* lines 80-101: call_last is a cycle (a tuple) or a list of cycles
CanMergeCall ==
    /\ fn = "can_merge" /\ pc = "run"
    /\ IF call_last.is_list /\ Len(call_last.value) < 1
       THEN pc' = "done" /\ returned' = Some(FALSE)
       ELSE LET last_cycle == IF call_last.is_list THEN Last(call_last.value)
                              ELSE call_last.value
            IN IF can_merge_asserts(last_cycle, call_new)
               THEN pc' = "AssertionError" /\ UNCHANGED returned
               ELSE /\ pc' = "done"
                    /\ returned' = Some(can_merge(last_cycle, call_new, merge_within))
    /\ UNCHANGED <<fn, merge_within, mergeVars, paramVars, extractVars, smoothVars, pipeVars,
                   call_last, call_new>>

\* the arguments: a well-formed cycle or a list of well-formed cycles, sorted
\* or not, a well-formed cycle, and a merge_within
InitCall ==
    /\ fn = "can_merge" /\ pc = "run"
    /\ MergeIdle /\ ExtractIdle /\ SmoothIdle /\ PipeIdle
    /\ \/ \E c \in InputCycles("S") : call_last = [is_list |-> FALSE, value |-> c]
       \/ \E l \in AnyLists("S") : call_last = [is_list |-> TRUE, value |-> l]
    /\ call_new \in InputCycles("S")
    /\ merge_within \in CallWithins
    /\ returned = None

NextCall == CanMergeCall

SpecCall == InitCall /\ [][NextCall]_vars

-----------------------------------------------------------------------------
(* The three functions together: a run is a run of one of them *)

Init == InitMerge \/ InitCurr \/ InitSoc

Next == NextMerge \/ NextCurr \/ NextSoc

Spec == Init /\ [][Next]_vars

-----------------------------------------------------------------------------
(* Properties of merge_cycles *)

\* the time stamps of a cycle of an output list: a combined cycle holds bare
\* time stamps, any other cycle holds samples
StartOf(c) == IF c.type = "M" THEN c.start ELSE c.start.Stamp
EndOf(c) == IF c.type = "M" THEN c.end ELSE c.end.Stamp

RECURSIVE SumCounts(_)
SumCounts(l) == IF l = <<>> THEN 0 ELSE l[1].sample_count + SumCounts(Tail(l))

\* adjacent cycles of l do not overlap
NonOverlapping(l) == \A i \in 1..(Len(l) - 1) : EndOf(l[i]) <= StartOf(l[i + 1])
\* the cycles of l are in the order of their starts
SortedByStart(l) == \A i \in 1..(Len(l) - 1) : StartOf(l[i]) <= StartOf(l[i + 1])

\* the first call of merge_cycles has returned
Returned == fn = "merge" /\ pc = "done" /\ pass = 1

\* C1: for sorted, internally non-overlapping inputs the list merge_cycles
\* returns is non-overlapping: adjacent c1, c2 have c1.end <= c2.start.
\* (Violated: a combined cycle is followed by its own second half.)
C1_MergedNonOverlapping ==
    (Returned /\ NonOverlapping(cycles_a) /\ NonOverlapping(cycles_b))
        => NonOverlapping(merged)

\* C2: [(10,20)] and [(25,40)] with merge_within = 10 merge into exactly one
\* cycle, 10..40.  (Violated: the code returns [(10,40), (25,40)].)
C2_ScenarioMergesToOne ==
    (Returned /\ cycles_a = ScenarioA /\ cycles_b = ScenarioB /\ merge_within = 10)
        => /\ Len(merged) = 1
           /\ StartOf(merged[1]) = 10
           /\ EndOf(merged[1]) = 40

\* C3: for sorted non-overlapping inputs the sample counts of the output sum
\* to the sample counts of the two inputs.  (Violated: the second cycle of a
\* combined pair is counted again when it is emitted on a later step.)
C3_SampleCountPreserved ==
    (Returned /\ NonOverlapping(cycles_a) /\ NonOverlapping(cycles_b))
        => SumCounts(merged) = SumCounts(cycles_a) + SumCounts(cycles_b)

\* C4: for inputs sorted by start the returned list is in non-decreasing
\* start order, the remainder appended after one list is exhausted included.
C4_MergedSortedByStart ==
    (Returned /\ SortedByStart(cycles_a) /\ SortedByStart(cycles_b))
        => SortedByStart(merged)

\* a returned list that holds a combined cycle, a cycle of the main loop after
\* it and an appended remainder
C4_Witness ==
    /\ Returned
    /\ Len(merged) >= 3
    /\ \E i \in 1..Len(merged) : merged[i].type = "M"
    /\ \E i \in 1..Len(merged) : merged[i].type = "A"
    /\ \E i \in 1..Len(merged) : merged[i].type = "S"

\* C5: merge_cycles(L, []) and merge_cycles([], L) return L, element for
\* element, for every L, a list returned by merge_cycles included.
C5_MergeWithEmptyIsIdentity ==
    (fn = "merge" /\ pc = "done")
        => /\ cycles_b = <<>> => merged = cycles_a
           /\ cycles_a = <<>> => merged = cycles_b

\* the second call has returned a list that holds a combined cycle and another
C5_Witness ==
    /\ fn = "merge" /\ pc = "done" /\ pass = 2
    /\ Len(merged) >= 2
    /\ \E i \in 1..Len(merged) : merged[i].type = "M"
    /\ \E i \in 1..Len(merged) : merged[i].type # "M"

\* the ordering precondition fails in l: a cycle starts before or when the
\* cycle before it ends (a list that is not sorted by start is such a list)
OrderingViolated(l) ==
    \E i \in 1..(Len(l) - 1) : l[i + 1].start.Stamp <= l[i].end.Stamp

\* C12: merge_cycles given a list that violates the ordering precondition
\* ends in the assertion error and returns no list.  (Violated: can_merge is
\* only called on the two heads, first.start <= second.start, where its
\* assertion cannot fail for start <= end; cycles of one list are never
\* compared, and the list is returned as it came.)
C12_OrderingViolationFatal ==
    (fn = "merge" /\ pass = 1
        /\ (OrderingViolated(cycles_a) \/ OrderingViolated(cycles_b)))
        => pc # "done"

\* the main loop of merge_cycles is about to run an iteration
InMainLoop ==
    /\ fn = "merge" /\ pc = "run"
    /\ a < Len(cycles_a) /\ b < Len(cycles_b)

\* the two heads start at the same time
Tie == cycles_a[a + 1].start.Stamp = cycles_b[b + 1].start.Stamp

\* C16 as claimed: when both heads start at the same time, the head of the
\* first list is `first` and the first list's cursor is the one advanced.
C16_FirstListWinsTies ==
    [][(InMainLoop /\ Tie)
        => (a' = a + 1 /\ b' = b /\ merged'[m + 1].end = cycles_b[b + 1].end.Stamp)]_vars

\* C16 as amended: when both heads start at the same time, the head of the
\* second list (cycles_b) is `first`, the head of the first list is `second`,
\* and the second list's cursor is the one advanced; the combined cycle ends
\* where the head of the first list ends.
C16_SecondListWinsTies ==
    [][(InMainLoop /\ Tie)
        => (b' = b + 1 /\ a' = a /\ merged'[m + 1].end = cycles_a[a + 1].end.Stamp)]_vars

\* the first iteration met two heads with the same start and different ends
C16_Witness ==
    /\ fn = "merge" /\ pass = 1 /\ m = 1 /\ a + b = 1
    /\ Len(cycles_a) >= 1 /\ Len(cycles_b) >= 1
    /\ cycles_a[1].start.Stamp = cycles_b[1].start.Stamp
    /\ cycles_a[1].end.Stamp # cycles_b[1].end.Stamp

\* C17: whenever merge_cycles merges a pair (first, second), first being the
\* head whose cursor the step advances, the cycle it emits has start =
\* first.start, end = second.end, sample_count = first.sample_count +
\* second.sample_count, metric = second.start - first.end and type M.
C17_CombinedCycle ==
    [][(InMainLoop /\ m' = m + 1)
        => LET first  == IF a' = a + 1 THEN cycles_a[a + 1] ELSE cycles_b[b + 1]
               second == IF a' = a + 1 THEN cycles_b[b + 1] ELSE cycles_a[a + 1]
               emitted == merged'[m + 1]
           IN can_merge(first, second, merge_within)
                => /\ emitted.type = "M"
                   /\ emitted.start = first.start.Stamp
                   /\ emitted.end = second.end.Stamp
                   /\ emitted.sample_count = first.sample_count + second.sample_count
                   /\ emitted.metric = second.start.Stamp - first.end.Stamp]_vars

\* the last cycle written combines a cycle of cycles_a with a later cycle of
\* cycles_b that holds more than one sample
C17_Witness ==
    /\ fn = "merge" /\ pass = 1 /\ pc = "run"
    /\ m = 1 /\ a = 1 /\ b = 0
    /\ merged[1].type = "M"
    /\ merged[1].sample_count > cycles_a[1].sample_count + 1
    /\ merged[1].metric > 0

\* C26: merge_cycles consumes exactly one input cycle and writes exactly one
\* output slot per step: at every point of the run the write index m equals
\* a + b, so m never exceeds len(cycles_a) + len(cycles_b), the length of the
\* preallocated list; the run ends after len(cycles_a) + len(cycles_b) steps
\* and the returned list has len(cycles_a) + len(cycles_b) elements.
C26_OneSlotPerStep ==
    fn = "merge" =>
        /\ m = a + b
        /\ a <= Len(cycles_a) /\ b <= Len(cycles_b)
        /\ m <= Len(cycles_a) + Len(cycles_b)
        /\ pc = "run" => Len(merged) = Len(cycles_a) + Len(cycles_b)
        /\ pc = "done" => /\ m = Len(cycles_a) + Len(cycles_b)
                          /\ Len(merged) = Len(cycles_a) + Len(cycles_b)

\* a call on two lists of two cycles has combined a pair and returned four
\* cycles
C26_Witness ==
    /\ Returned
    /\ Len(cycles_a) = 2 /\ Len(cycles_b) = 2
    /\ Len(merged) = 4
    /\ \E i \in 1..Len(merged) : merged[i].type = "M"

\* C29: every combined cycle emitted by merge_cycles covers both cycles it
\* was built from: its start is not after the earlier of their starts and its
\* end is not before the later of their ends, also when second lies inside
\* first.  (Violated: line 118 takes second's end, which is before first's
\* end when second lies inside first.)
C29_CombinedCoversBoth ==
    [][(InMainLoop /\ m' = m + 1 /\ merged'[m + 1].type = "M")
        => LET first  == IF a' = a + 1 THEN cycles_a[a + 1] ELSE cycles_b[b + 1]
               second == IF a' = a + 1 THEN cycles_b[b + 1] ELSE cycles_a[a + 1]
               emitted == merged'[m + 1]
           IN /\ emitted.start <= Min(first.start.Stamp, second.start.Stamp)
              /\ emitted.end >= Max(first.end.Stamp, second.end.Stamp)]_vars

-----------------------------------------------------------------------------
(* Properties of extract_cycles_curr *)

\* adjacent cycles of a list of an extractor: the later starts after the
\* earlier has ended
StrictlyApart(l) == \A i \in 1..(Len(l) - 1) : l[i].end.Stamp < l[i + 1].start.Stamp

\* C6: both lists of extract_cycles_curr are chronologically ordered and
\* non-overlapping, c1.end < c2.start for adjacent c1, c2, after every step.
C6_CurrListsApart ==
    fn = "curr" => StrictlyApart(cycles) /\ StrictlyApart(discarded_cycles)

\* two cycles accepted by the same run, the second closed by a timeout
C6_Witness ==
    /\ fn = "curr" /\ Len(cycles) >= 2
    /\ charge_samples[Len(charge_samples)].ChargingCurr > charge_thresh_end

\* the threshold scenario has been read to its end
C9_Ran == fn = "curr" /\ scenario = "C9" /\ Len(charge_samples) = Len(ScenarioC9)

\* C9 as claimed: the scenario yields exactly one accepted cycle, 120..180
\* with two samples, and no discarded cycle.
C9_ScenarioAccepted ==
    C9_Ran => /\ Len(cycles) = 1
              /\ cycles[1].start.Stamp = 120
              /\ cycles[1].end.Stamp = 180
              /\ cycles[1].sample_count = 2
              /\ discarded_cycles = <<>>

\* C9 as amended: the scenario yields exactly one cycle, 120..180 with two
\* samples, and it is discarded (its duration of 60 s is not more than
\* min_charge_time = 60 s); no cycle is accepted.
C9_ScenarioDiscarded ==
    C9_Ran => /\ cycles = <<>>
              /\ Len(discarded_cycles) = 1
              /\ discarded_cycles[1].start.Stamp = 120
              /\ discarded_cycles[1].end.Stamp = 180
              /\ discarded_cycles[1].sample_count = 2

\* the scenario has run and the SoC rose between 120 s and 180 s
C9_Witness ==
    /\ C9_Ran /\ pc = "done"
    /\ charge_samples[4].soc_smooth > charge_samples[3].soc_smooth

\* every row came at most max_sample_delay after the row before it
InTime ==
    \A i \in 2..Len(charge_samples) :
        charge_samples[i].Stamp - charge_samples[i - 1].Stamp <= max_sample_delay

\* the stream alternates between a value above start_threshold (rows 1, 3,
\* ...) and a value below stop_threshold (rows 2, 4, ...)
Oscillating ==
    /\ Len(charge_samples) >= 2
    /\ InTime
    /\ \A i \in 1..Len(charge_samples) :
          IF i % 2 = 1 THEN charge_samples[i].ChargingCurr > charge_thresh_start
          ELSE charge_samples[i].ChargingCurr < charge_thresh_end

\* one open interval from the first row on, and no cycle closed yet
OneOpenCycle ==
    /\ charge_start = Some(charge_samples[1])
    /\ charge_sample_count = Len(charge_samples)
    /\ cycles = <<>>
    /\ discarded_cycles = <<>>

\* C10 as claimed: an oscillation between just above start_threshold and just
\* below stop_threshold never closes a cycle.
C10_NoChattering ==
    (fn = "curr" /\ Oscillating)
        => (charge_start = Some(charge_samples[1]) /\ cycles = <<>> /\ discarded_cycles = <<>>)

\* the first row is above start_threshold and no later row is below
\* stop_threshold
Holding ==
    /\ Len(charge_samples) >= 1
    /\ InTime
    /\ charge_samples[1].ChargingCurr > charge_thresh_start
    /\ \A i \in 2..Len(charge_samples) :
          ~(charge_samples[i].ChargingCurr < charge_thresh_end)

\* C10 as amended: a signal whose first sample is above start_threshold and
\* whose later samples are never below stop_threshold, sampled faster than
\* max_sample_delay, opens one cycle at the first sample and never closes it.
C10_HoldsWhileNotBelowStop ==
    (fn = "curr" /\ Holding) => OneOpenCycle

\* an alternation between a value above start_threshold and a value between
\* the two thresholds
C10_Witness ==
    /\ fn = "curr" /\ Holding
    /\ Len(charge_samples) >= 3
    /\ \A i \in 1..Len(charge_samples) :
          i % 2 = 0 => charge_samples[i].ChargingCurr < charge_thresh_start

\* a step of extract_cycles_curr closes the open cycle
CurrCloses == fn = "curr" /\ pc = "run" /\ ~IsNone(charge_start) /\ IsNone(charge_start')

\* C18: every candidate extract_cycles_curr closes is appended to exactly one
\* list: to the accepted list iff end.Stamp - start.Stamp > min_charge_time
\* and sample_count > min_charge_samples and soc_smooth(end) -
\* soc_smooth(start) > min_charge_amount, else to the discarded list; after
\* the close the machine is Idle, sample count and running average are 0.
C18_AcceptOrDiscard ==
    [][CurrCloses
        => LET start == Val(charge_start)
               end   == Val(last_sample)
               candidate == [start |-> start, end |-> end,
                             sample_count |-> charge_sample_count,
                             metric |-> charge_avg_curr]
               accept == /\ end.Stamp - start.Stamp > min_charge_time
                         /\ charge_sample_count > min_charge_samples
                         /\ end.soc_smooth - start.soc_smooth > min_charge_amount
           IN /\ accept => (cycles' = Append(cycles, candidate)
                              /\ discarded_cycles' = discarded_cycles)
              /\ ~accept => (discarded_cycles' = Append(discarded_cycles, candidate)
                               /\ cycles' = cycles)
              /\ charge_sample_count' = 0
              /\ charge_avg_curr'[1] = 0]_vars

\* one run has accepted a cycle of more than two samples and discarded another
C18_Witness ==
    /\ fn = "curr" /\ IsNone(charge_start)
    /\ min_charge_samples = 2
    /\ Len(cycles) >= 1 /\ Len(discarded_cycles) >= 1
    /\ charge_sample_count = 0

\* extract_cycles_curr reads a sample while in Charging
CurrReadsInCharging ==
    /\ fn = "curr" /\ pc = "run" /\ ~IsNone(charge_start)
    /\ Len(charge_samples') = Len(charge_samples) + 1

\* the cycles of both lists, the accepted ones first
BothLists == cycles \o discarded_cycles

\* C19: in Charging, a sample below stop_threshold, or later than
\* max_sample_delay after the previous sample, closes the cycle with end =
\* the previous sample and leaves the machine Idle, also when the closing
\* sample is above start_threshold; any other sample leaves the machine in
\* Charging and adds exactly 1 to the sample count.
C19_ClosingRule ==
    [][CurrReadsInCharging
        => LET sample   == charge_samples'[Len(charge_samples')]
               previous == Val(last_sample)
               closed   == IF Len(cycles') > Len(cycles)
                           THEN cycles'[Len(cycles')]
                           ELSE discarded_cycles'[Len(discarded_cycles')]
           IN IF \/ sample.ChargingCurr < charge_thresh_end
                 \/ sample.Stamp - previous.Stamp > max_sample_delay
              THEN /\ IsNone(charge_start')
                   /\ Len(cycles') + Len(discarded_cycles')
                         = Len(cycles) + Len(discarded_cycles) + 1
                   /\ closed.start = Val(charge_start)
                   /\ closed.end = previous
                   /\ closed.sample_count = charge_sample_count
              ELSE /\ charge_start' = charge_start
                   /\ charge_sample_count' = charge_sample_count + 1
                   /\ cycles' = cycles
                   /\ discarded_cycles' = discarded_cycles]_vars

\* a timeout has closed a cycle of several samples, and the sample that
\* closed it is above start_threshold
C19_Witness ==
    /\ fn = "curr" /\ IsNone(charge_start)
    /\ Len(charge_samples) >= 3
    /\ Val(last_sample).ChargingCurr > charge_thresh_start
    /\ Val(last_sample).Stamp - charge_samples[Len(charge_samples) - 1].Stamp
          > max_sample_delay
    /\ \E i \in 1..Len(BothLists) :
          /\ BothLists[i].end = charge_samples[Len(charge_samples) - 1]
          /\ BothLists[i].sample_count >= 2

\* the number of rows read so far whose Stamp lies in [from, to]
SamplesWithin(from, to) ==
    Cardinality({i \in 1..Len(charge_samples) :
                    from <= charge_samples[i].Stamp /\ charge_samples[i].Stamp <= to})

\* C28: in extract_cycles_curr every emitted cycle, accepted or discarded,
\* has sample_count >= 1, and its sample_count is the number of input samples
\* whose time stamp lies in [start.timestamp, end.timestamp].
C28_CountsItsSamples ==
    fn = "curr" =>
        \A i \in 1..Len(BothLists) :
            /\ BothLists[i].sample_count >= 1
            /\ BothLists[i].sample_count
                  = SamplesWithin(BothLists[i].start.Stamp, BothLists[i].end.Stamp)

\* one run has emitted a cycle of one sample, closed by a timeout, and a
\* cycle of three samples or more
C28_Witness ==
    /\ fn = "curr" /\ pc = "done"
    /\ \E i \in 1..Len(BothLists) :
          /\ BothLists[i].sample_count = 1
          /\ \E j \in 1..(Len(charge_samples) - 1) :
                /\ charge_samples[j] = BothLists[i].end
                /\ charge_samples[j + 1].Stamp - charge_samples[j].Stamp > max_sample_delay
    /\ \E i \in 1..Len(BothLists) : BothLists[i].sample_count >= 3

-----------------------------------------------------------------------------
(* Properties of extract_cycles_soc *)

\* adjacent cycles of a list of an extractor do not overlap
Apart(l) == \A i \in 1..(Len(l) - 1) : l[i].end.Stamp <= l[i + 1].start.Stamp

\* C7: both lists of extract_cycles_soc stay chronologically ordered and
\* non-overlapping, c1.end <= c2.start for adjacent c1, c2, after every close,
\* for every parameter setting.  (Violated: a candidate merged with the
\* discarded tail takes that tail's start, which may lie before the accepted
\* tail, and is then appended to the accepted list.)
C7_SocListsApart ==
    fn = "soc" => Apart(cycles) /\ Apart(discarded_cycles)

\* the soc_smooth of the rows i..j of the stream
RECURSIVE SocSum(_, _)
SocSum(i, j) == IF i > j THEN 0 ELSE charge_samples[i].soc_smooth + SocSum(i + 1, j)

\* C20: for each sample of extract_cycles_soc, soc_diff is 0 while fewer
\* than derivate_span values have been seen; after that it is the average of
\* the last derivate_span - floor(derivate_span / 2) values minus the average
\* of the first floor(derivate_span / 2) values of the window, the window
\* being the derivate_span most recent values.  (For derivate_span = 1 the
\* first half is empty and the difference is not defined.)
C20_DerivativeEstimate ==
    (fn = "soc" /\ pc = "run" /\ charge_samples # <<>> /\ derivate_span >= 2)
        => LET n     == Len(charge_samples)
               half  == derivate_span \div 2
               rest  == derivate_span - half
               first == n - derivate_span + 1
               old   == SocSum(first, first + half - 1)
               new   == SocSum(first + half, n)
           IN IF n < derivate_span
              THEN soc_diff[1] = 0
              ELSE soc_diff[1] * (rest * half) = (new * half - old * rest) * soc_diff[2]

\* the window of three values has moved on and the estimate is 1/2
C20_Witness ==
    /\ fn = "soc" /\ pc = "run"
    /\ derivate_span = 3
    /\ Len(charge_samples) > 4
    /\ soc_diff[1] * 2 = soc_diff[2]

\* C21: for every derivate_span >= 1 and every sample stream the derivative
\* computation of extract_cycles_soc never divides by zero.  (Violated: with
\* derivate_span = 1 the window is full at the first sample, its first half
\* h[0:0] is empty, and line 207 divides by len(h[0:0]) = 0.)
C21_NeverDividesByZero ==
    (fn = "soc" /\ derivate_span >= 1) => pc # "ZeroDivisionError"

\* extract_cycles_soc reads a sample while in Charging, without an exception
SocReadsInCharging ==
    /\ fn = "soc" /\ pc = "run" /\ ~IsNone(charge_start)
    /\ Len(charge_samples') = Len(charge_samples) + 1
    /\ pc' = "run"

\* the cycle a close has written: the accepted tail when the accepted list
\* has changed, else the discarded tail
SocClosed ==
    IF cycles' # cycles THEN Last(cycles') ELSE Last(discarded_cycles')

\* C22: in Charging, when the derivative drops below stop_threshold the
\* candidate closes at the previous sample, exactly as a timeout close does;
\* the end of a candidate is a sample seen while Charging.  (Violated: line
\* 224 sets charge_end to the sample whose derivative dropped, which was not
\* counted; only the timeout close of line 227 ends at the previous sample.)
C22_ClosesAtPrevious ==
    [][(SocReadsInCharging /\ SocStops(soc_diff'))
        => (IsNone(charge_start') /\ SocClosed.end = Val(last_sample))]_vars

\* the sample a step of extract_cycles_soc has read, and charge_end after
\* lines 222-230 of that step
SocSampleRead == Last(charge_samples')
SocEndRead == SocChargeEnd(SocSampleRead, soc_diff')

\* the step closes a candidate: charge_end is set at line 232
SocCloses == SocReadsInCharging /\ ~IsNone(SocEndRead)

\* the candidate of lines 233 and 238
SocCandidate == [start |-> Val(charge_start), end |-> Val(SocEndRead)]

\* C23: when a closed candidate is mergeable with the last accepted cycle,
\* neither list grows and the accepted tail is replaced by a cycle with the
\* same start, end = candidate end, sample_count = old tail sample_count +
\* candidate sample_count, and metric = soc_smooth(candidate end) -
\* soc_smooth(tail start).  (Violated: line 236 adds the candidate's count to
\* cycles[-1][3], the tail's metric, not to cycles[-1][2], its sample count.)
C23_AcceptedTailExtended ==
    [][(SocCloses /\ can_merge_list(cycles, SocCandidate, merge_within))
        => LET tail == Last(cycles)
               new  == Last(cycles')
           IN /\ Len(cycles') = Len(cycles)
              /\ Len(discarded_cycles') = Len(discarded_cycles)
              /\ new.start = tail.start
              /\ new.end = SocCandidate.end
              /\ new.sample_count = tail.sample_count + charge_sample_count
              /\ new.metric = SocCandidate.end.soc_smooth - tail.start.soc_smooth]_vars

\* C24: only when the candidate is not mergeable with the accepted tail, and
\* it is mergeable with the last discarded cycle, the candidate's start
\* becomes that cycle's start, its sample_count becomes candidate count +
\* discarded tail count and the discarded tail is removed; the combined
\* candidate is evaluated once by the accept/reject rule and appended to
\* exactly one list.  Mergeable with neither tail, the candidate is evaluated
\* unchanged.
C24_DiscardedTailAbsorbed ==
    [][(SocCloses /\ ~can_merge_list(cycles, SocCandidate, merge_within))
        => LET absorb == can_merge_list(discarded_cycles, SocCandidate, merge_within)
               tail   == Last(discarded_cycles)
               start  == IF absorb THEN tail.start ELSE SocCandidate.start
               end    == SocCandidate.end
               count  == IF absorb THEN charge_sample_count + tail.sample_count
                         ELSE charge_sample_count
               rest   == IF absorb
                         THEN SubSeq(discarded_cycles, 1, Len(discarded_cycles) - 1)
                         ELSE discarded_cycles
               combined == [start |-> start, end |-> end, sample_count |-> count,
                            metric |-> end.soc_smooth - start.soc_smooth]
               accept == /\ end.Stamp - start.Stamp > min_charge_time
                         /\ count > min_charge_samples
                         /\ end.soc_smooth - start.soc_smooth > min_charge_amount
           IN IF accept
              THEN cycles' = Append(cycles, combined) /\ discarded_cycles' = rest
              ELSE discarded_cycles' = Append(rest, combined) /\ cycles' = cycles]_vars

\* a candidate that was not mergeable with the accepted tail has absorbed
\* the discarded tail, which began before the accepted tail, and was accepted
C24_Witness ==
    /\ fn = "soc" /\ pc = "run" /\ IsNone(charge_start)
    /\ Len(cycles) >= 2 /\ discarded_cycles = <<>>
    /\ Last(cycles).start.Stamp < cycles[Len(cycles) - 1].start.Stamp

\* every cycle of l has ended before time stamp t
EndedBefore(l, t) == \A i \in 1..Len(l) : l[i].end.Stamp < t

\* C27: for streams with strictly increasing time stamps the assertion of
\* can_merge (gap > 0) never fails when extract_cycles_soc calls it: the
\* accepted tail and the discarded tail, as every other cycle of the two
\* lists, have ended strictly before the start of the candidate that is open
\* and will be compared with them at its close.
C27_AssertionNeverFails ==
    fn = "soc" =>
        /\ pc # "AssertionError"
        /\ ~IsNone(charge_start) =>
              /\ EndedBefore(cycles, Val(charge_start).Stamp)
              /\ EndedBefore(discarded_cycles, Val(charge_start).Stamp)

\* a candidate has been compared with both tails at its close: three cycles
\* or more are in the two lists, and none of the lists is empty
C27_Witness ==
    /\ fn = "soc" /\ pc = "run" /\ IsNone(charge_start)
    /\ Len(cycles) >= 1 /\ Len(discarded_cycles) >= 1
    /\ Len(cycles) + Len(discarded_cycles) >= 3

-----------------------------------------------------------------------------
(* Properties of both extractors *)

\* C13: when the stream ends while an extractor is in Charging, the open
\* interval is appended to neither list: the function returns, without an
\* error, the two lists as they were after the last sample.
C13_OpenIntervalDropped ==
    [][(fn \in {"curr", "soc"} /\ pc = "run" /\ charge_samples' = charge_samples)
        => (pc' = "done" /\ cycles' = cycles /\ discarded_cycles' = discarded_cycles)]_vars

\* a stream has ended in Charging after a cycle was closed
C13_Witness ==
    /\ fn \in {"curr", "soc"} /\ pc = "done"
    /\ ~IsNone(charge_start)
    /\ Len(cycles) + Len(discarded_cycles) >= 1

-----------------------------------------------------------------------------
(* Properties of preprocess_cycles *)

\* the loop of lines 298-303 is over: it has ended or an exception has ended it
WriteOver == fn = "write" /\ pc # "run"

\* C14: the rows handed to persistence are exactly merged ++ current-discarded
\* ++ SoC-discarded, in that order, each with a type code: B for the
\* current-discarded, T for the SoC-discarded, M for the combined cycles, and
\* A or S for the cycles merge_cycles passed through.  (Violated: the row of a
\* combined cycle is never handed over; line 303 reads cycle[0]['Stamp'] from
\* the bare time stamp lines 117-121 put there, and the write loop ends in a
\* TypeError.)
C14_SinkGetsAllTagged ==
    WriteOver =>
        /\ Len(written) = Len(ToWrite)
        /\ \A i \in 1..Len(ToWrite) :
              /\ written[i].start_time = StartOf(ToWrite[i])
              /\ written[i].end_time = EndOf(ToWrite[i])
              /\ written[i].sample_count = ToWrite[i].sample_count
              /\ written[i].type = ToWrite[i].type
        /\ \A i \in 1..Len(merged) : merged[i].type \in {"A", "S", "M"}
        /\ \A i \in 1..Len(cycles_curr_disc) : cycles_curr_disc[i].type = "B"
        /\ \A i \in 1..Len(cycles_soc_disc) : cycles_soc_disc[i].type = "T"

-----------------------------------------------------------------------------
(* Properties of all three functions *)

\* the slots merge_cycles has written so far
Emitted == 1..Min(m, Len(merged))

\* C8: every cycle emitted by any path has start.timestamp <= end.timestamp:
\* the accepted and discarded cycles of both extractors, the tails
\* extract_cycles_soc extends or rebuilds, and the cycles merge_cycles writes
\* for well-formed sorted inputs.
C8_StartNotAfterEnd ==
    /\ fn \in {"curr", "soc"} =>
          /\ \A i \in 1..Len(cycles) : cycles[i].start.Stamp <= cycles[i].end.Stamp
          /\ \A i \in 1..Len(discarded_cycles) :
                discarded_cycles[i].start.Stamp <= discarded_cycles[i].end.Stamp
    /\ (fn = "merge" /\ pass = 1 /\ SortedByStart(cycles_a) /\ SortedByStart(cycles_b)) =>
          \A i \in Emitted : StartOf(merged[i]) <= EndOf(merged[i])

\* merge_cycles has combined two cycles across a gap
C8_Witness ==
    /\ fn = "merge" /\ pass = 1
    /\ SortedByStart(cycles_a) /\ SortedByStart(cycles_b)
    /\ \E i \in Emitted : merged[i].type = "M" /\ merged[i].metric > 0

-----------------------------------------------------------------------------
(* Properties of smooth *)

\* the smoothed value v (None or a fraction) is the number x
IsNumber(v, x) == ~IsNone(v) /\ Val(v)[1] = x * Val(v)[2]

\* row i came later than max_age after row i - 1
StaleAt(i) ==
    /\ ~IsNone(max_age)
    /\ samples[i].Stamp - samples[i - 1].Stamp > Val(max_age)

\* C11: a sample that comes later than the staleness window after its
\* predecessor and has a raw value gets that raw value as its smoothed value,
\* not alpha * previous + (1 - alpha) * raw.  (Violated: a raw value of 0
\* counts as no value in lines 55 and 63, and the stale sample gets
\* default_value.)
C11_StaleResetsToRaw ==
    fn = "smooth" =>
        \A i \in 2..Len(samples) :
            (StaleAt(i) /\ ~IsNone(samples[i].value))
                => IsNumber(samples[i].value_smooth, Val(samples[i].value))

\* the fractions x and y are the same number
SameNumber(x, y) == x[1] * y[2] = y[1] * x[2]

\* C25: for every sample of smooth, with "present" and "exists" meaning any
\* numeric value, zero included: (1) raw present and a prior smoothed value
\* exists: v' = alpha * v'_prev + (1 - alpha) * v_raw; (2) raw present, no
\* prior smoothed value: v' = v_raw; (3) raw absent, a prior smoothed value
\* exists: v' = v'_prev; (4) raw absent, no prior smoothed value: v' =
\* default.  (Violated: lines 55-57 and 63-65 test the values by truthiness,
\* so a raw value of 0 is handled as absent and a prior smoothed value of 0
\* as none.)
C25_SmootherCases ==
    (fn = "smooth" /\ IsNone(max_age)) =>
        \A i \in 1..Len(samples) :
            LET raw   == samples[i].value
                prior == IF i = 1 THEN None ELSE samples[i - 1].value_smooth
                out   == samples[i].value_smooth
            IN CASE ~IsNone(raw) /\ ~IsNone(prior) ->
                      /\ ~IsNone(out)
                      /\ SameNumber(Val(out),
                                    <<alpha[1] * Val(prior)[1]
                                         + (alpha[2] - alpha[1]) * Val(raw) * Val(prior)[2],
                                      alpha[2] * Val(prior)[2]>>)
                 [] ~IsNone(raw) /\ IsNone(prior) -> IsNumber(out, Val(raw))
                 [] IsNone(raw) /\ ~IsNone(prior) -> out = prior
                 [] IsNone(raw) /\ IsNone(prior) -> out = default_value

-----------------------------------------------------------------------------
(* Properties of can_merge *)

\* the cycle can_merge compares new_cycle with: its first argument, or the
\* last element of its first argument
ComparedCycle == IF call_last.is_list THEN Last(call_last.value) ELSE call_last.value

\* the call has ended, by a return or by an exception
CallOver == fn = "can_merge" /\ pc # "run"

====
